---- MODULE Spec2Model ----
(***************************************************************************)
(* A model of the templater tool (src/src/templater/mod.rs): the sled      *)
(* metadata store, the archive artifacts under archives/, the directories  *)
(* of the launch directory, and the five tasks Create, Expand, List,       *)
(* Delete and Edit.  One invocation of the tool runs one task to           *)
(* completion; a task is modelled step by step, in the order of its code,  *)
(* so that the states between two durable steps are states of the model.   *)
(***************************************************************************)
EXTENDS Integers, Sequences, FiniteSets, TLC

\* Number of invocations of the tool that a behaviour holds.  The clock
\* advances by one at every invocation, so it also bounds the timestamps.
MaxTime == 4

\* Option::None of an optional string (name, description, --as).
NoVal == "none"
\* Option::None of Template.used; SystemTime values are 1, 2, ...
NoTime == 0
\* The directory the tool is launched in; Expand's default parent ".".
LaunchDir == "."
\* Template names; also the names of the directories of the launch directory.
Names == {"a", "b"}

-----------------------------------------------------------------------------
(* Directory trees.  A tree is a set of entries, an entry a path relative  *)
(* to the tree's root (a sequence of one-character components), its kind   *)
(* and, for a file, its contents.                                          *)

Dir(p) == [path |-> p, kind |-> "dir", data |-> 0]
File(p, d) == [path |-> p, kind |-> "file", data |-> d]

\* The project directory that exists before the tool is first run.
ProjTree == {Dir(<<>>), Dir(<<"t">>), File(<<"t", "x">>, 1), File(<<"f">>, 2)}

Parent(p) == SubSeq(p, 1, Len(p) - 1)
Children(tree, e) == {c \in tree : c.path # <<>> /\ Parent(c.path) = e.path}

\* WalkDir::new(path): the root first, every directory before its contents,
\* a directory's entries in the order the file system lists them.
RECURSIVE WalkFrom(_, _), WalkAll(_, _)
WalkFrom(tree, e) ==
    IF e.kind = "file" THEN {<<e>>}
    ELSE {<<e>> \o s : s \in WalkAll(tree, Children(tree, e))}
WalkAll(tree, C) ==
    IF C = {} THEN {<<>>}
    ELSE UNION {{w \o r : w \in WalkFrom(tree, c), r \in WalkAll(tree, C \ {c})} : c \in C}
Walks(tree) == WalkFrom(tree, Dir(<<>>))

\* entry.path() as a string: the source path, then "/" and each component.
RECURSIVE Flatten(_)
Flatten(p) == IF p = <<>> THEN <<>> ELSE <<"/", Head(p)>> \o Flatten(Tail(p))
PathStr(src, p) == <<src>> \o Flatten(p)

-----------------------------------------------------------------------------
(* Glob patterns: a sequence of tokens, a literal character or "*".        *)

Lower(c) == IF c = "T" THEN "t" ELSE IF c = "A" THEN "a" ELSE c

\* GlobBuilder::build: an unclosed character class does not compile.
Compiles(pat) == \A i \in 1..Len(pat) : pat[i] # "["

\* GlobMatcher::is_match with case_insensitive(true): the whole string must
\* match; "*" matches any run of characters, "/" included.
RECURSIVE GlobMatch(_, _)
GlobMatch(pat, s) ==
    IF pat = <<>> THEN s = <<>>
    ELSE IF Head(pat) = "*"
         THEN GlobMatch(Tail(pat), s) \/ (s # <<>> /\ GlobMatch(pat, Tail(s)))
         ELSE s # <<>> /\ Lower(Head(pat)) = Lower(Head(s)) /\ GlobMatch(Tail(pat), Tail(s))

\* The filter of the walked paths: a path is dropped iff some matcher matches it.
Ignored(ignore, src, p) == \E i \in 1..Len(ignore) : GlobMatch(ignore[i], PathStr(src, p))

Unfiltered(w, ignore, src) == w
RECURSIVE FilePathList(_, _, _)
FilePathList(w, ignore, src) ==
    IF w = <<>> THEN <<>>
    ELSE IF Ignored(ignore, src, Head(w).path)
         THEN FilePathList(Tail(w), ignore, src)
         ELSE <<Head(w)>> \o FilePathList(Tail(w), ignore, src)

PatDir == <<"*", "/", "t">>        \* "*/t": the directory t, not what is in it
PatSub == <<"*", "/", "T", "*">>   \* "*/T*": the directory t and what is in it
PatBad == <<"[">>                  \* "[": does not compile

-----------------------------------------------------------------------------
(* Archive artifacts: the entries appended, and whether the tar and gzip   *)
(* streams have been finished.  The field "from" is history, not part of   *)
(* the file: the source path, its tree and the ignore patterns of the      *)
(* Create that wrote the file, and whether that Create read the whole tree.*)

Capture(src, tree, ignore, whole) ==
    [src |-> src, tree |-> tree, ignore |-> ignore, whole |-> whole]
Artifact(entries, finished, from) ==
    [entries |-> entries, finished |-> finished, from |-> from]
Range(s) == {s[i] : i \in 1..Len(s)}
Last(s) == s[Len(s)]

\* std::fs::metadata(archive).len(), in units of one header or entry.
ByteLen(art) == IF art.finished THEN 1 + Cardinality(art.entries) ELSE 0

\* Archive::unpack into an empty directory: every entry, and the directories
\* above it, which unpack creates when they are missing.
Ancestors(p) == {SubSeq(p, 1, k) : k \in 0..Len(p)}
Unpacked(entries) ==
    LET given == entries
        above == UNION {Ancestors(e.path) : e \in given}
    IN given \cup {Dir(p) : p \in {q \in above : \A e \in given : e.path # q}} \cup {Dir(<<>>)}

-----------------------------------------------------------------------------
(* The stored record (struct Template), command lines, and Create's merge  *)
(* of the command line with the definition file.                           *)

Template(name, description, commands, size, created, used) ==
    [name |-> name, description |-> description, commands |-> commands,
     compressed_size |-> size, created |-> created, used |-> used]

\* Lines 610-617: the record Create inserts.
NewRecordKeepingUsed(name, description, commands, size, time, old) ==
    Template(name, description, commands, size, time, old.used)
NewRecord(name, description, commands, size, time, old) ==
    Template(name, description, commands, size, time, NoTime)

\* Line 300: template.used = Some(SystemTime::now()).
Touched(template, time) == [template EXCEPT !.used = time]

\* Lines 670-677: the edited name, description and commands laid over the
\* record that was read.
OverlayFresh(template, doc) ==
    Template(doc.name, doc.description, doc.commands, template.compressed_size,
             template.created, NoTime)
OverlayResized(template, doc) ==
    Template(doc.name, doc.description, doc.commands, 0,
             template.created, template.used)
Overlay(template, doc) ==
    Template(doc.name, doc.description, doc.commands, template.compressed_size,
             template.created, template.used)

\* A command line is the sequence of its whitespace-separated tokens.
CmdTrue == <<"true">>
CmdFalse == <<"false">>
CmdEcho == <<"echo", "hi">>
\* The exit status sh -c gives the command line.
ExitStatus(line) == IF Head(line) = "false" THEN 1 ELSE 0
\* Line 381: !status.success().
StatusIgnored(line) == FALSE
Failed(line) == ExitStatus(line) # 0

\* A definition document: whether a file is given that opens and holds JSON,
\* which of the keys "commands" and "ignore" it has, and the values of its
\* keys; a name or description that is missing is NoVal.
NoDefinition == [loaded |-> FALSE, keys |-> {}, name |-> NoVal, description |-> NoVal,
                 commands |-> <<>>, ignore |-> <<>>]
DefinitionDoc(name, description, commands, ignore) ==
    [loaded |-> TRUE, keys |-> {"commands", "ignore"}, name |-> name,
     description |-> description, commands |-> commands, ignore |-> ignore]
DefinitionB == DefinitionDoc("b", "d", <<CmdEcho>>, <<PatSub>>)

\* load_template_definition, lines 416-449: None when no file is given, when
\* it does not open or read, and when it does not parse as TemplateDefinition,
\* whose commands and ignore are not optional.
LoadTemplateDefinition(doc) ==
    IF doc.loaded /\ {"commands", "ignore"} \subseteq doc.keys THEN doc ELSE NoDefinition

\* path.file_name() of a directory of the launch directory.
FileName(path) == path

\* Lines 451-521.
MergeNameDefinitionFirst(path, name, d) ==
    IF d.loaded /\ d.name # NoVal THEN d.name
    ELSE IF name # NoVal THEN name
    ELSE FileName(path)
MergeName(path, name, d) ==
    IF name # NoVal THEN name
    ELSE IF d.loaded /\ d.name # NoVal THEN d.name
    ELSE FileName(path)
MergeDescription(description, d) ==
    IF description # NoVal THEN description
    ELSE IF d.loaded THEN d.description ELSE NoVal
MergeList(cli, fromDef, d) ==
    IF d.loaded /\ Len(cli) = 0 /\ Len(fromDef) # 0 THEN fromDef ELSE cli

\* The command lines of Create that the model runs (path and --force apart).
CreateArg(name, description, commands, ignore, definition) ==
    [name |-> name, description |-> description, commands |-> commands,
     ignore |-> ignore, definition |-> definition]
CreateArgs ==
    {CreateArg(NoVal, NoVal, <<>>, <<>>, NoDefinition),
     CreateArg("b", "d", <<CmdTrue, CmdFalse, CmdTrue>>, <<PatDir>>, NoDefinition),
     CreateArg(NoVal, NoVal, <<>>, <<PatBad>>, NoDefinition),
     CreateArg(NoVal, NoVal, <<>>, <<>>, DefinitionB),
     CreateArg("a", NoVal, <<>>, <<>>, DefinitionB)}
NoArg == CreateArg(NoVal, NoVal, <<>>, <<>>, NoDefinition)

\* Every combination of the values below: a name, description, commands and
\* ignore patterns given or not on the command line, and a definition file
\* not given, or given with each key there or missing.
MergeArgs ==
    {CreateArg(name, description, commands, ignore, definition) :
        name \in {NoVal, "c"}, description \in {NoVal, "d"},
        commands \in {<<>>, <<CmdTrue>>}, ignore \in {<<>>, <<PatDir>>},
        definition \in {NoDefinition} \cup
            {doc \in {[DefinitionDoc(dn, dd, dc, di) EXCEPT !.keys = keys] :
                        dn \in {NoVal, "b"}, dd \in {NoVal, "e"},
                        dc \in {<<>>, <<CmdEcho>>}, di \in {<<>>, <<PatSub>>},
                        keys \in SUBSET {"commands", "ignore"}} :
                /\ "commands" \notin doc.keys => doc.commands = <<>>
                /\ "ignore" \notin doc.keys => doc.ignore = <<>>}}

\* The documents the editor leaves behind in Edit: nothing changed, the name
\* changed to the other name, description and commands changed, no valid JSON.
Other(n) == IF n = "a" THEN "b" ELSE "a"
EditFile(name, description, commands) ==
    [valid |-> TRUE, name |-> name, description |-> description, commands |-> commands]
Edited(t) ==
    {EditFile(t.name, t.description, t.commands),
     EditFile(Other(t.name), t.description, t.commands),
     EditFile(t.name, "e", <<CmdTrue>>),
     [EditFile(t.name, t.description, t.commands) EXCEPT !.valid = FALSE]}

\* str::contains on names, by their characters.
Chars(n) == IF n = "" THEN <<>> ELSE IF n = "ab" THEN <<"a", "b">> ELSE <<n>>
ContainsExact(n, filter) == n = filter
Contains(n, filter) ==
    \E i \in 0..Len(Chars(n)) : \E j \in i..Len(Chars(n)) :
        SubSeq(Chars(n), i + 1, j) = Chars(filter)

-----------------------------------------------------------------------------
VARIABLES
    db,        \* the sled store: a function from the keys present to records
    archives,  \* archives/<name>.tar.gz: a function from the names present
    fs,        \* the directories of the launch directory, name -> tree
    tmp,       \* whether Edit's temporary file exists
    cwd,       \* the process's current directory
    now,       \* the clock
    pc,        \* where the running invocation is; "idle" between invocations
    op,        \* the running invocation's task, arguments and locals
    pre,       \* db, archives and fs as they were when the invocation started
    result,    \* what the invocation returned
    ran,       \* the command lines the running Expand has started
    parked,    \* a second process of the tool, while it is not the one stepping
    tar        \* print_tar_tree's locals, and the lines it has printed

vars == <<db, archives, fs, tmp, cwd, now, pc, op, pre, result, ran, parked, tar>>

\* Function update and removal, as sled's insert/remove and the file system's.
Put(f, k, v) == [x \in DOMAIN f \cup {k} |-> IF x = k THEN v ELSE f[x]]
Del(f, k) == [x \in DOMAIN f \ {k} |-> f[x]]

Empty == [x \in {} |-> 0]
Snapshot == [db |-> db, archives |-> archives, fs |-> fs, cwd |-> cwd]
\* What pre holds while no invocation is running.
NoSnapshot == [db |-> Empty, archives |-> Empty, fs |-> Empty, cwd |-> LaunchDir]

NoTemplate == Template(NoVal, NoVal, <<>>, 0, NoTime, NoTime)
NoOp == [task |-> "none", arg |-> NoArg,
         name |-> NoVal, path |-> NoVal, description |-> NoVal,
         commands |-> <<>>, ignore |-> <<>>, force |-> FALSE,
         create_as |-> NoVal, no_exec |-> FALSE, list_commands |-> FALSE,
         file_tree |-> FALSE, cwd0 |-> LaunchDir, template |-> NoTemplate,
         failed |-> NoVal, shown |-> {}, editor |-> "none", status |-> 0]

\* What a process has of its own: its position, its task and locals, its
\* result, the commands it has started, its current directory, the state it
\* was launched in and its temporary file.
Context(c_pc, c_op, c_result, c_ran, c_cwd, c_pre, c_tmp) ==
    [pc |-> c_pc, op |-> c_op, result |-> c_result, ran |-> c_ran, cwd |-> c_cwd,
     pre |-> c_pre, tmp |-> c_tmp]

\* print_tar_tree before it is called: nothing to render, nothing printed.
NoTar == [entries |-> <<>>, i |-> 0, dir_stack |-> <<[prefix |-> <<>>, depth |-> 0]>>,
          last_depth |-> 0, is_first_entry |-> TRUE, out |-> <<>>]

Init ==
    /\ db = Empty
    /\ archives = Empty
    /\ fs = [d \in {"a"} |-> ProjTree]
    /\ tmp = FALSE
    /\ cwd = LaunchDir
    /\ now = 0
    /\ pc = "idle"
    /\ op = NoOp
    /\ pre = NoSnapshot
    /\ result = "none"
    /\ ran = <<>>
    /\ parked = Context("idle", NoOp, "none", <<>>, LaunchDir, NoSnapshot, FALSE)
    /\ tar = NoTar

\* sled's Config::open (run_command, lines 42-46) takes an exclusive lock on
\* the store for as long as the process has it open, which is until run
\* returns: while another process is in a task, open fails.
StoreUnlocked == FALSE
StoreLocked == parked.pc \notin {"idle", "done"}

\* A new process is started; the clock has advanced since the last one.
Launch ==
    /\ pc = "idle"
    /\ now < MaxTime
    /\ ~StoreLocked
    /\ now' = now + 1
    /\ pre' = Snapshot
    /\ UNCHANGED <<cwd, ran, tmp, parked, tar>>

\* A process is started while another has the store open: run_command fails
\* with "Failed to open database" before the task is looked at.
OpenFails ==
    /\ pc = "idle"
    /\ now < MaxTime
    /\ StoreLocked
    /\ now' = now + 1
    /\ pre' = Snapshot
    /\ \E task \in {"create", "expand", "delete", "edit", "list"}, name \in Names :
         op' = [NoOp EXCEPT !.task = task, !.name = name]
    /\ pc' = "done"
    /\ result' = "OpenFailed"
    /\ UNCHANGED <<db, archives, fs, tmp, cwd, ran, parked, tar>>

\* The operating system runs the other process.  A process that has
\* returned exits before another is looked at.
Switch ==
    /\ pc # "done"
    /\ pc # "idle" \/ parked.pc # "idle"
    /\ parked' = Context(pc, op, result, ran, cwd, pre, tmp)
    /\ pc' = parked.pc
    /\ op' = parked.op
    /\ result' = parked.result
    /\ ran' = parked.ran
    /\ cwd' = parked.cwd
    /\ pre' = parked.pre
    /\ tmp' = parked.tmp
    /\ UNCHANGED <<db, archives, fs, now, tar>>

Return(r) == pc' = "done" /\ result' = r

\* main.rs lines 7-16: the result is reported and the process exits.
Exit ==
    /\ pc = "done"
    /\ pc' = "idle"
    /\ op' = NoOp
    /\ cwd' = LaunchDir
    /\ pre' = NoSnapshot
    /\ result' = "none"
    /\ ran' = <<>>
    /\ UNCHANGED <<db, archives, fs, tmp, now, parked, tar>>

-----------------------------------------------------------------------------
(* Create, lines 390-631 *)

\* Lines 527-529: self.db.contains_key(&name)? && !force.
PreCheckInverted(name, force) == name \in DOMAIN db /\ force
PreCheckFails(name, force) == name \in DOMAIN db /\ ~force

\* Lines 400-529: the directory check, then the merge and the pre-check.
CreateStart(path, arg, force) ==
    LET d == LoadTemplateDefinition(arg.definition)
        final == MergeName(path, arg.name, d)
    IN
    /\ Launch
    /\ IF path \notin DOMAIN fs
       THEN /\ op' = [NoOp EXCEPT !.task = "create", !.arg = arg, !.path = path,
                                   !.force = force]
            /\ Return("InvalidTemplateDir")
       ELSE /\ op' = [NoOp EXCEPT
                        !.task = "create", !.arg = arg, !.path = path, !.name = final,
                        !.description = MergeDescription(arg.description, d),
                        !.commands = MergeList(arg.commands, d.commands, d),
                        !.ignore = MergeList(arg.ignore, d.ignore, d),
                        !.force = force]
            /\ IF PreCheckFails(final, force) THEN Return("TemplateExists")
               ELSE pc' = "create_file" /\ result' = "running"
    /\ UNCHANGED <<db, archives, fs>>

\* Lines 535-553: File::create truncates or creates the archive file.
CreateFileRecordFirst ==
    /\ pc = "create_file"
    /\ archives' = Put(archives, op.name,
                        Artifact({}, FALSE, Capture(op.path, fs[op.path], op.ignore, FALSE)))
    /\ db' = Put(db, op.name,
                 NewRecord(op.name, op.description, op.commands, ByteLen(archives'[op.name]),
                           now, NoTemplate))
    /\ pc' = "create_compile"
    /\ UNCHANGED <<fs, tmp, cwd, now, op, pre, result, ran, parked, tar>>
CreateFile ==
    /\ pc = "create_file"
    /\ archives' = Put(archives, op.name,
                        Artifact({}, FALSE, Capture(op.path, fs[op.path], op.ignore, FALSE)))
    /\ pc' = "create_compile"
    /\ UNCHANGED <<db, fs, tmp, cwd, now, op, pre, result, ran, parked, tar>>

\* Lines 555-565: the ignore patterns are compiled.  On an error the tar
\* builder and the gzip encoder are dropped, which finishes the (empty) archive.
CreateCompile ==
    /\ pc = "create_compile"
    /\ IF \A i \in 1..Len(op.ignore) : Compiles(op.ignore[i])
       THEN pc' = "create_walk" /\ UNCHANGED <<archives, result>>
       ELSE /\ archives' = Put(archives, op.name,
                                Artifact({}, TRUE, archives[op.name].from))
            /\ Return("GlobError")
    /\ UNCHANGED <<db, fs, tmp, cwd, now, op, pre, ran, parked, tar>>

\* Lines 571-598: walk, filter, append, finish.  A file that cannot be opened
\* ends Create; the entries appended before it are in the finished archive.
CreateWalk ==
    /\ pc = "create_walk"
    /\ \E w \in Walks(fs[op.path]) :
         LET list == FilePathList(w, op.ignore, op.path) IN
         \/ /\ archives' = Put(archives, op.name,
                                Artifact(Range(list), TRUE,
                                         [archives[op.name].from EXCEPT !.whole = TRUE]))
            /\ pc' = "create_insert"
            /\ UNCHANGED result
         \/ \E k \in 1..Len(list) :
              /\ list[k].kind = "file"
              /\ archives' = Put(archives, op.name,
                                  Artifact(Range(SubSeq(list, 1, k - 1)), TRUE,
                                           archives[op.name].from))
              /\ Return("IoError")
    /\ UNCHANGED <<db, fs, tmp, cwd, now, op, pre, ran, parked, tar>>

\* Lines 604-624: the size is read and the record inserted.
CreateInsert ==
    /\ pc = "create_insert"
    /\ db' = Put(db, op.name,
                 NewRecord(op.name, op.description, op.commands,
                           ByteLen(archives[op.name]), now,
                           IF op.name \in DOMAIN db THEN db[op.name] ELSE NoTemplate))
    /\ Return("Ok")
    /\ UNCHANGED <<archives, fs, tmp, cwd, now, op, pre, ran, parked, tar>>

Create ==
    \/ \E path \in Names, arg \in CreateArgs, force \in BOOLEAN :
         CreateStart(path, arg, force)
    \/ CreateFile
    \/ CreateCompile
    \/ CreateWalk
    \/ CreateInsert

-----------------------------------------------------------------------------
(* Expand, lines 287-388.  The parent directory is the launch directory.   *)

\* Lines 295-298 and 309-312: the record is looked up.
ExpandStart(name, create_as, no_exec) ==
    /\ Launch
    /\ IF name \in DOMAIN db
       THEN /\ op' = [NoOp EXCEPT
                        !.task = "expand", !.name = name, !.no_exec = no_exec,
                        !.create_as = IF create_as = NoVal THEN name ELSE create_as,
                        !.template = db[name]]
            /\ pc' = "expand_touch" /\ result' = "running"
       ELSE /\ op' = [NoOp EXCEPT
                        !.task = "expand", !.name = name, !.no_exec = no_exec,
                        !.create_as = IF create_as = NoVal THEN name ELSE create_as]
            /\ Return("TemplateNotFound")
    /\ UNCHANGED <<db, archives, fs>>

\* Lines 300-301: used is set to the time and the record written back.
ExpandTouchUnsaved ==
    /\ pc = "expand_touch"
    /\ op' = [op EXCEPT !.template = Touched(op.template, now)]
    /\ pc' = "expand_open"
    /\ UNCHANGED <<db, archives, fs, tmp, cwd, now, pre, result, ran, parked, tar>>
ExpandTouch ==
    /\ pc = "expand_touch"
    /\ op' = [op EXCEPT !.template = Touched(op.template, now)]
    /\ db' = Put(db, op.name, op'.template)
    /\ pc' = "expand_open"
    /\ UNCHANGED <<archives, fs, tmp, cwd, now, pre, result, ran, parked, tar>>

\* Lines 318-324: the archive file is opened.
ExpandOpen ==
    /\ pc = "expand_open"
    /\ IF op.name \in DOMAIN archives
       THEN pc' = "expand_dest" /\ UNCHANGED result
       ELSE Return("IoError")
    /\ UNCHANGED <<db, archives, fs, tmp, cwd, now, op, pre, ran, parked, tar>>

\* Lines 326-329: an existing destination is refused.
ExpandDest ==
    /\ pc = "expand_dest"
    /\ IF op.create_as \in DOMAIN fs
       THEN Return("InvalidTemplateDir")
       ELSE pc' = "expand_unpack" /\ UNCHANGED result
    /\ UNCHANGED <<db, archives, fs, tmp, cwd, now, op, pre, ran, parked, tar>>

\* Lines 331-342: the destination is created and the archive unpacked into it.
\* An extraction error is the one that strikes before the first entry is written.
ExpandUnpack ==
    /\ pc = "expand_unpack"
    /\ \/ /\ fs' = Put(fs, op.create_as, Unpacked(archives[op.name].entries))
          /\ IF op.no_exec THEN Return("Ok")
             ELSE pc' = "expand_chdir" /\ UNCHANGED result
       \/ /\ fs' = Put(fs, op.create_as, {Dir(<<>>)})
          /\ Return("IoError")
    /\ UNCHANGED <<db, archives, tmp, cwd, now, op, pre, ran, parked, tar>>

\* Lines 344-346: the current directory is saved and changed.
ExpandChdir ==
    /\ pc = "expand_chdir"
    /\ op' = [op EXCEPT !.cwd0 = cwd]
    /\ cwd' = op.create_as
    /\ pc' = "expand_run"
    /\ UNCHANGED <<db, archives, fs, tmp, now, pre, result, ran, parked, tar>>

\* Lines 347-384, one turn of the loop: the next command line is split and
\* run through sh; the shell cannot be spawned, or the command exits.
ExpandRun ==
    /\ pc = "expand_run"
    /\ Len(ran) < Len(op.template.commands)
    /\ LET line == op.template.commands[Len(ran) + 1] IN
       \/ /\ Return("IoError")
          /\ UNCHANGED <<ran, op>>
       \/ /\ ran' = Append(ran, line)
          /\ IF Failed(line)
             THEN Return("CreateTemplate") /\ op' = [op EXCEPT !.failed = Head(line)]
             ELSE UNCHANGED <<pc, result, op>>
    /\ UNCHANGED <<db, archives, fs, tmp, cwd, now, pre, parked, tar>>

\* Lines 385-387: after the last command the current directory is restored.
ExpandRestore ==
    /\ pc = "expand_run"
    /\ Len(ran) = Len(op.template.commands)
    /\ cwd' = op.cwd0
    /\ Return("Ok")
    /\ UNCHANGED <<db, archives, fs, tmp, now, op, pre, ran, parked, tar>>

Expand ==
    \/ \E name \in Names, create_as \in {NoVal, "b"}, no_exec \in BOOLEAN :
         ExpandStart(name, create_as, no_exec)
    \/ ExpandTouch
    \/ ExpandOpen
    \/ ExpandDest
    \/ ExpandUnpack
    \/ ExpandChdir
    \/ ExpandRun
    \/ ExpandRestore

-----------------------------------------------------------------------------
(* Delete, lines 111-132 *)

\* Lines 112-115: the record is removed.
DeleteStart(name) ==
    /\ Launch
    /\ op' = [NoOp EXCEPT !.task = "delete", !.name = name]
    /\ IF name \in DOMAIN db
       THEN db' = Del(db, name) /\ pc' = "delete_archive" /\ result' = "running"
       ELSE UNCHANGED db /\ Return("TemplateNotFound")
    /\ UNCHANGED <<archives, fs>>

\* Lines 119-131: the archive file is removed when there is one; a file that
\* is there and cannot be removed ends Delete with the I/O error.
DeleteArchiveStrict ==
    /\ pc = "delete_archive"
    /\ IF op.name \in DOMAIN archives
       THEN archives' = Del(archives, op.name) /\ Return("Ok")
       ELSE UNCHANGED archives /\ Return("IoError")
    /\ UNCHANGED <<db, fs, tmp, cwd, now, op, pre, ran, parked, tar>>
DeleteArchive ==
    /\ pc = "delete_archive"
    /\ IF op.name \in DOMAIN archives
       THEN \/ archives' = Del(archives, op.name) /\ Return("Ok")
            \/ UNCHANGED archives /\ Return("IoError")
       ELSE UNCHANGED archives /\ Return("Ok")
    /\ UNCHANGED <<db, fs, tmp, cwd, now, op, pre, ran, parked, tar>>

Delete ==
    \/ \E name \in Names : DeleteStart(name)
    \/ DeleteArchive

-----------------------------------------------------------------------------
(* Edit, lines 633-695 *)

\* The temporary file is removed when edit_template returns.
EditReturn(r) == Return(r) /\ tmp' = FALSE

\* Lines 634-655: the record is looked up and its projection written to a
\* temporary file.
EditStart(name) ==
    /\ pc = "idle"
    /\ now < MaxTime
    /\ ~StoreLocked
    /\ now' = now + 1
    /\ pre' = Snapshot
    /\ IF name \in DOMAIN db
       THEN /\ op' = [NoOp EXCEPT !.task = "edit", !.name = name, !.template = db[name]]
            /\ tmp' = TRUE
            /\ pc' = "edit_editor" /\ result' = "running"
       ELSE /\ op' = [NoOp EXCEPT !.task = "edit", !.name = name]
            /\ tmp' = tmp
            /\ Return("TemplateNotFound")
    /\ UNCHANGED <<db, archives, fs, cwd, ran, parked, tar>>

\* Lines 657-677: the editor runs; it cannot be spawned, exits non-zero, or
\* leaves a document that is parsed and laid over the record.
\* Line 660: !status.success().
EditorStatusIgnored(status) == FALSE
EditorFailed(status) == status # 0

EditEditor ==
    /\ pc = "edit_editor"
    /\ \/ /\ op' = [op EXCEPT !.editor = "unspawned"]
          /\ EditReturn("IoError")
       \/ \E status \in {0, 1}, doc \in Edited(op.template) :
            IF EditorFailed(status)
            THEN /\ op' = [op EXCEPT !.editor = "exited", !.status = status]
                 /\ EditReturn("EditTemplate")
            ELSE IF doc.valid
            THEN /\ op' = [op EXCEPT !.editor = "exited", !.status = status,
                                     !.template = Overlay(op.template, doc)]
                 /\ pc' = "edit_insert"
                 /\ UNCHANGED <<result, tmp>>
            ELSE /\ op' = [op EXCEPT !.editor = "exited", !.status = status]
                 /\ EditReturn("JsonError")
    /\ UNCHANGED <<db, archives, fs, cwd, now, pre, ran, parked, tar>>

\* Line 679: the record is written under the key Edit was given.
EditInsert ==
    /\ pc = "edit_insert"
    /\ db' = Put(db, op.name, op.template)
    /\ pc' = "edit_rename"
    /\ UNCHANGED <<archives, fs, tmp, cwd, now, op, pre, result, ran, parked, tar>>

\* Lines 681-689: the archive file is renamed to the record's name; renaming
\* a file that is not there is an error.
EditRenameLenient ==
    /\ pc = "edit_rename"
    /\ archives' = IF op.name \in DOMAIN archives
                   THEN Put(Del(archives, op.name), op.template.name, archives[op.name])
                   ELSE archives
    /\ pc' = "edit_list"
    /\ UNCHANGED <<result, tmp>>
    /\ UNCHANGED <<db, fs, cwd, now, op, pre, ran, parked, tar>>
EditRename ==
    /\ pc = "edit_rename"
    /\ IF op.name \in DOMAIN archives
       THEN /\ archives' = Put(Del(archives, op.name), op.template.name, archives[op.name])
            /\ pc' = "edit_list"
            /\ UNCHANGED <<result, tmp>>
       ELSE UNCHANGED archives /\ EditReturn("IoError")
    /\ UNCHANGED <<db, fs, cwd, now, op, pre, ran, parked, tar>>

\* list_templates, lines 134-201: the records whose name contains the filter.
Listed(filter) ==
    {k \in DOMAIN db : filter = NoVal \/ Contains(db[k].name, filter)}

\* Lines 691-694: the record is listed and its commands looked up, both by
\* the record's name.
EditList ==
    /\ pc = "edit_list"
    /\ op' = [op EXCEPT !.shown = Listed(op.template.name)]
    /\ IF op.template.name \in DOMAIN db
       THEN EditReturn("Ok")
       ELSE EditReturn("TemplateNotFound")
    /\ UNCHANGED <<db, archives, fs, cwd, now, pre, ran, parked, tar>>

Edit ==
    \/ \E name \in Names : EditStart(name)
    \/ EditEditor
    \/ EditInsert
    \/ EditRename
    \/ EditList

-----------------------------------------------------------------------------
(* List, lines 80-105 of run *)

\* Lines 81 and 89: name.is_none() with either flag.
NameMissingForCommands(name, commands, file_tree) == name = NoVal /\ commands
NameMissing(name, commands, file_tree) == name = NoVal /\ (commands \/ file_tree)

\* Lines 80-105: the two checks, then list_templates, list_commands and
\* show_file_tree.
ListRun(name, commands, file_tree) ==
    /\ Launch
    /\ op' = [NoOp EXCEPT !.task = "list", !.name = name, !.list_commands = commands,
                          !.file_tree = file_tree,
                          !.shown = IF NameMissing(name, commands, file_tree)
                                    THEN {} ELSE Listed(name)]
    /\ IF NameMissing(name, commands, file_tree) THEN Return("InvalidArgument")
       ELSE IF commands /\ name \notin DOMAIN db THEN Return("TemplateNotFound")
       ELSE IF file_tree /\ name \notin DOMAIN archives THEN Return("IoError")
       ELSE Return("Ok")
    /\ UNCHANGED <<db, archives, fs>>

List ==
    \E name \in Names \cup {NoVal}, commands \in BOOLEAN, file_tree \in BOOLEAN :
        ListRun(name, commands, file_tree)

-----------------------------------------------------------------------------
Next == Create \/ Expand \/ Delete \/ Edit \/ List \/ Exit

Spec == Init /\ [][Next]_vars

-----------------------------------------------------------------------------
(* print_tar_tree, lines 221-271.  An archive entry is its path as tar      *)
(* stores it, a sequence of components, and its kind.  A prefix is the      *)
(* sequence of the four-character pieces it is made of.                     *)

ConnLast == "+-- "   \* the last-item connector, U+2514 U+2500 U+2500 and a space
ConnCont == "|-- "   \* the continuation connector, U+251C U+2500 U+2500 and a space
PadBar == "|   "     \* U+2502 and three spaces
PadBlank == "    "

\* The path Builder::append_* stores for "./" joined with a relative path:
\* "./" for the root itself, and the path without the leading "./" otherwise.
TarPath(p) == IF p = <<>> THEN <<"./">> ELSE p
ToTar(list) == [k \in 1..Len(list) |-> [path |-> TarPath(list[k].path), kind |-> list[k].kind]]

\* The archives rendered: those Create writes for the directories below, and
\* an archive with the entries root, root/a, root/a/b.txt, root/c.txt.
TarTrees ==
    {tree \in {{Dir(<<>>)} \cup S :
                  S \in SUBSET {Dir(<<"t">>), File(<<"f">>, 2), File(<<"g">>, 4),
                                File(<<"t", "x">>, 1), File(<<"t", "y">>, 3)}} :
        \A e \in tree : e.path = <<>> \/ Dir(Parent(e.path)) \in tree}
RootedTar ==
    <<[path |-> <<"root">>, kind |-> "dir"],
      [path |-> <<"root", "a">>, kind |-> "dir"],
      [path |-> <<"root", "a", "b.txt">>, kind |-> "file"],
      [path |-> <<"root", "c.txt">>, kind |-> "file"]>>
TarInputs ==
    {RootedTar} \cup
    UNION {{ToTar(FilePathList(w, ignore, "a")) : w \in Walks(tree)} :
              tree \in TarTrees, ignore \in {<<>>, <<PatDir>>}}

\* Lines 234-240: the stack is popped down to an entry less deep than depth.
RECURSIVE PopTo(_, _)
PopTo(stack, depth) ==
    IF stack # <<>> /\ Last(stack).depth >= depth
    THEN PopTo(SubSeq(stack, 1, Len(stack) - 1), depth)
    ELSE stack

\* Lines 229-269, one turn of the loop.
PrintTarTree ==
    /\ tar.i < Len(tar.entries)
    /\ LET entry == tar.entries[tar.i + 1]
           total_entries == Len(tar.entries)
           depth == Len(entry.path)
           stack == PopTo(tar.dir_stack, depth)
           file_name == Last(entry.path)
           prefix == IF stack = <<>> THEN <<>> ELSE Last(stack).prefix
           connector == IF tar.i = total_entries - 1
                           \/ (depth # tar.last_depth /\ ~tar.is_first_entry)
                        THEN ConnLast ELSE ConnCont
           line == IF tar.is_first_entry
                   THEN [prefix |-> <<>>, connector |-> "", name |-> file_name]
                   ELSE [prefix |-> prefix, connector |-> connector, name |-> file_name]
           next_prefix == IF tar.i = total_entries - 1 \/ depth # tar.last_depth
                          THEN Append(prefix, PadBlank) ELSE Append(prefix, PadBar)
       IN tar' = [tar EXCEPT
                    !.i = tar.i + 1,
                    !.dir_stack = IF entry.kind = "dir"
                                  THEN Append(stack, [prefix |-> next_prefix, depth |-> depth])
                                  ELSE stack,
                    !.last_depth = depth,
                    !.is_first_entry = FALSE,
                    !.out = Append(tar.out, line)]
    /\ UNCHANGED <<db, archives, fs, tmp, cwd, now, pc, op, pre, result, ran, parked>>

InitTree ==
    /\ db = Empty
    /\ archives = Empty
    /\ fs = [d \in {"a"} |-> ProjTree]
    /\ tmp = FALSE
    /\ cwd = LaunchDir
    /\ now = 0
    /\ pc = "idle"
    /\ op = NoOp
    /\ pre = NoSnapshot
    /\ result = "none"
    /\ ran = <<>>
    /\ parked = Context("idle", NoOp, "none", <<>>, LaunchDir, NoSnapshot, FALSE)
    /\ tar \in {[NoTar EXCEPT !.entries = e] : e \in TarInputs}
NextTree == PrintTarTree
SpecTree == InitTree /\ [][NextTree]_vars

\* A first Create, on every combination of command line and definition file.
NextMerge ==
    \/ \E path \in Names, arg \in MergeArgs : CreateStart(path, arg, FALSE)
    \/ CreateFile
    \/ CreateCompile
    \/ CreateWalk
    \/ CreateInsert
SpecMerge == Init /\ [][NextMerge]_vars

\* Creates under the names a, b and ab, and listings with a filter that is a
\* name, a part of a name, in no name, or empty.
ListNames == {"a", "b", "ab"}
ListFilters == {NoVal, "", "a", "b", "ab", "c"}
NextList ==
    \/ \E name \in ListNames :
         CreateStart("a", CreateArg(name, NoVal, <<>>, <<>>, NoDefinition), FALSE)
    \/ CreateFile
    \/ CreateCompile
    \/ CreateWalk
    \/ CreateInsert
    \/ \E name \in ListFilters, commands \in BOOLEAN, file_tree \in BOOLEAN :
         ListRun(name, commands, file_tree)
    \/ Exit
SpecList == Init /\ [][NextList]_vars

\* Two processes of the tool on one store, their steps interleaved.
NextConc == Next \/ OpenFails \/ Switch
SpecConc == Init /\ [][NextConc]_vars

-----------------------------------------------------------------------------
(* Properties.  An invocation that has returned is at "done", with its     *)
(* arguments in op, its result in result and the state it started from in  *)
(* pre.                                                                    *)

Done(task) == pc = "done" /\ op.task = task
Kept(from) == {e \in from.tree : ~Ignored(from.ignore, from.src, e.path)}
StoredCommands == IF op.name \in DOMAIN pre.db THEN pre.db[op.name].commands ELSE <<>>

\* C1: every operation that completes successfully from a state in which the
\* names with a record are the names with an artifact leaves such a state: no
\* record without its artifact, no artifact without its record.
C1_RecordIffArtifact ==
    (pc = "done" /\ result = "Ok" /\ DOMAIN pre.db = DOMAIN pre.archives)
        => DOMAIN db = DOMAIN archives

\* C2: a Create whose final name has a record and whose force flag is false
\* fails with TemplateExists and changes neither the store nor any artifact.
C2_ExistingNameRefused ==
    (Done("create") /\ op.name \in DOMAIN pre.db /\ ~op.force)
        => /\ result = "TemplateExists"
           /\ db = pre.db
           /\ archives = pre.archives
C2_Refused ==
    /\ Done("create") /\ op.name \in DOMAIN pre.db /\ ~op.force
    /\ result = "TemplateExists"
    /\ op.name \in DOMAIN archives

\* The record and the artifact under the name are those of this Create alone.
Replaced ==
    /\ op.name \in DOMAIN db
    /\ db[op.name].name = op.name
    /\ db[op.name].description = op.description
    /\ db[op.name].commands = op.commands
    /\ db[op.name].compressed_size = ByteLen(archives[op.name])
    /\ db[op.name].created = now
    /\ db[op.name].created > pre.db[op.name].created
    /\ db[op.name].used = NoTime
    /\ archives[op.name].finished
    /\ archives[op.name].entries =
         {e \in pre.fs[op.path] : ~Ignored(op.ignore, op.path, e.path)}

\* C3, as stated: a Create with force on a name that has a record succeeds
\* and replaces the record and the artifact.
C3_ForceAlwaysSucceeds ==
    (Done("create") /\ op.force /\ op.name \in DOMAIN pre.db)
        => result = "Ok" /\ Replaced
\* C3, amended: a Create with force on a name that has a record is never
\* refused with TemplateExists; it fails only when a pattern does not compile
\* or a file cannot be read; when it succeeds the record is built from the
\* new inputs alone (new size, new created, used absent) and the artifact
\* holds the newly captured tree alone.
C3_ForceReplaces ==
    (Done("create") /\ op.force /\ op.name \in DOMAIN pre.db)
        => /\ result \in {"Ok", "GlobError", "IoError"}
           /\ result = "GlobError" => \E i \in 1..Len(op.ignore) : ~Compiles(op.ignore[i])
           /\ result = "IoError" => \E e \in pre.fs[op.path] : e.kind = "file"
           /\ result = "Ok" => Replaced
C3_Replaced ==
    /\ Done("create") /\ op.force /\ op.name \in DOMAIN pre.db
    /\ result = "Ok"
    /\ pre.db[op.name].used # NoTime
    /\ pre.archives[op.name].entries # archives[op.name].entries

\* C4, as stated: after Create and Expand with no-exec the destination holds
\* exactly the walked entries that no ignore pattern matches, contents included.
C4_ExactPaths ==
    (Done("expand") /\ op.no_exec /\ result = "Ok" /\ pre.archives[op.name].from.whole)
        => fs[op.create_as] = Kept(pre.archives[op.name].from)
\* C4, amended: the destination holds every walked entry that no ignore
\* pattern matches, with its contents, and besides these only the destination
\* itself and directories above such an entry (a matched directory comes back
\* when something below it is not matched).
C4_PathsWithAncestors ==
    (Done("expand") /\ op.no_exec /\ result = "Ok" /\ pre.archives[op.name].from.whole)
        => LET kept == Kept(pre.archives[op.name].from) IN
           /\ op.create_as \notin DOMAIN pre.fs
           /\ kept \subseteq fs[op.create_as]
           /\ \A e \in fs[op.create_as] \ kept :
                /\ e.kind = "dir"
                /\ e.path = <<>> \/ \E k \in kept : e.path \in Ancestors(k.path)
C4_IgnoredDirectoryBack ==
    /\ Done("expand") /\ op.no_exec /\ result = "Ok"
    /\ pre.archives[op.name].from.whole
    /\ \E e \in fs[op.create_as] : e \notin Kept(pre.archives[op.name].from)
    /\ \E e \in fs[op.create_as] : e.kind = "file"

\* C5: the record Create inserts has no used; an Expand of a name that has a
\* record has written used = now to the store before it opens the archive,
\* and nothing has been extracted then; the value stays however Expand ends.
C5_UsedTracksAttempts ==
    /\ (Done("create") /\ result = "Ok") => db[op.name].used = NoTime
    /\ (op.task = "expand" /\ op.name \in DOMAIN pre.db /\ pc # "expand_touch")
         => /\ op.name \in DOMAIN db
            /\ db[op.name].used = now
            /\ db[op.name].used # NoTime
            /\ pc \in {"expand_open", "expand_dest", "expand_unpack"} => fs = pre.fs
C5_TouchedThoughFailed ==
    /\ Done("expand") /\ result = "CreateTemplate"
    /\ pre.db[op.name].used = NoTime
    /\ db[op.name].used = now

\* C6, as stated: a step changes the used value of a stored record only in
\* Expand, and then to a later time.
C6_OnlyExpandChangesUsed ==
    [][\A n \in DOMAIN db \cap DOMAIN db' :
          db'[n].used # db[n].used
              => op'.task = "expand" /\ db'[n].used > db[n].used]_vars
\* C6, amended: a step changes the used value of a stored record only in
\* Expand, and then to a later time, or in a Create with force that replaces
\* the record of that name, and then to absent; Edit, List and Delete never
\* change it.
C6_ExpandOrForcedCreate ==
    [][\A n \in DOMAIN db \cap DOMAIN db' :
          db'[n].used # db[n].used
              => \/ op'.task = "expand" /\ op'.name = n /\ db'[n].used > db[n].used
                 \/ /\ op'.task = "create" /\ op'.force /\ op'.name = n
                    /\ db'[n].used = NoTime]_vars
C6_UsedAfterEdit ==
    /\ Done("edit") /\ result = "Ok"
    /\ pre.db[op.name].used # NoTime
    /\ db[op.name].used = pre.db[op.name].used
    /\ db[op.name].commands # pre.db[op.name].commands

C8_CwdRestored == Done("expand") => cwd = pre.cwd

\* C9: the commands Expand has started are the first stored commands, in
\* stored order; none is started after one that exited non-zero; as soon as
\* one exits non-zero Expand has failed with CreateTemplate naming it, and
\* Expand fails so only then.
C9_FailFast ==
    op.task = "expand"
        => /\ Len(ran) <= Len(StoredCommands)
           /\ ran = SubSeq(StoredCommands, 1, Len(ran))
           /\ \A j \in 1..(Len(ran) - 1) : ExitStatus(ran[j]) = 0
           /\ (ran # <<>> /\ ExitStatus(Last(ran)) # 0)
                => pc = "done" /\ result = "CreateTemplate" /\ op.failed = Head(Last(ran))
           /\ (pc = "done" /\ result = "CreateTemplate")
                => ran # <<>> /\ ExitStatus(Last(ran)) # 0
C9_ThirdNotRun ==
    /\ Done("expand") /\ result = "CreateTemplate"
    /\ StoredCommands = <<CmdTrue, CmdFalse, CmdTrue>>
    /\ ran = <<CmdTrue, CmdFalse>>
    /\ op.failed = "false"

\* C10: an Expand of a name that has a record, into a destination that
\* exists, fails with InvalidTemplateDir, extracts nothing and runs nothing.
C10_NeverOverwrites ==
    (Done("expand") /\ op.name \in DOMAIN pre.db /\ op.create_as \in DOMAIN pre.fs)
        => /\ result = "InvalidTemplateDir"
           /\ fs = pre.fs
           /\ ran = <<>>

\* An invocation that names a template under which no record was stored.
LookupMiss ==
    /\ pc = "done"
    /\ op.name # NoVal
    /\ op.name \notin DOMAIN pre.db
    /\ \/ op.task \in {"delete", "expand", "edit"}
       \/ op.task = "list" /\ (op.list_commands \/ op.file_tree)

\* C11: a Delete, an Expand, a commands listing, a file-tree listing or an
\* Edit of a name under which no record is stored returns TemplateNotFound
\* and leaves the store, the artifacts and the directories as they were.
C11_LookupMissNotFound ==
    LookupMiss
        => /\ result = "TemplateNotFound"
           /\ db = pre.db
           /\ archives = pre.archives
           /\ fs = pre.fs

\* C12: a Delete of a name that has a record removes the record first and
\* the artifact after it; it succeeds when the artifact is missing, and fails
\* only when an artifact that is there cannot be removed; after a successful
\* Delete there is neither a record nor an artifact under the name, and every
\* other record and artifact is as before.
C12_RecordThenArtifact ==
    /\ pc = "delete_archive"
         => /\ op.name \in DOMAIN pre.db
            /\ db = Del(pre.db, op.name)
            /\ archives = pre.archives
    /\ (Done("delete") /\ op.name \in DOMAIN pre.db)
         => /\ db = Del(pre.db, op.name)
            /\ op.name \notin DOMAIN pre.archives => result = "Ok"
            /\ result = "Ok"
                 => /\ op.name \notin DOMAIN archives
                    /\ archives = Del(pre.archives, op.name)
            /\ result # "Ok"
                 => /\ result = "IoError"
                    /\ op.name \in DOMAIN pre.archives
                    /\ archives = pre.archives
C12_DeletedWithoutArtifact ==
    /\ Done("delete") /\ result = "Ok"
    /\ op.name \in DOMAIN pre.db
    /\ op.name \notin DOMAIN pre.archives
    /\ pre.archives # Empty

\* C13: Edit writes the edited record under the key it was given before it
\* touches the artifact, and then renames the artifact to the record's name;
\* after a successful Edit the artifact that was under the key is under the
\* record's name, with the record still under the key; an Edit whose rename
\* fails, the artifact being missing, does not return Ok.
C13_UpdateThenRename ==
    /\ pc = "edit_rename"
         => /\ db = Put(pre.db, op.name, op.template)
            /\ archives = pre.archives
    /\ pc = "edit_list"
         => /\ db = Put(pre.db, op.name, op.template)
            /\ op.name \in DOMAIN pre.archives
            /\ archives = Put(Del(pre.archives, op.name), op.template.name,
                              pre.archives[op.name])
    /\ (Done("edit") /\ result = "Ok")
         => /\ db = Put(pre.db, op.name, op.template)
            /\ op.name \in DOMAIN pre.archives
            /\ db[op.name].name \in DOMAIN archives
            /\ archives[db[op.name].name] = pre.archives[op.name]
            /\ db[op.name].name # op.name => op.name \notin DOMAIN archives
    /\ (Done("edit") /\ op.name \in DOMAIN pre.db /\ op.name \notin DOMAIN pre.archives)
         => result # "Ok"
C13_Renamed ==
    /\ Done("edit") /\ result = "Ok"
    /\ db[op.name].name # op.name
    /\ db[op.name].name \in DOMAIN archives
    /\ op.name \notin DOMAIN archives

\* C14: a Create one of whose ignore patterns does not compile fails, and
\* leaves no archive behind it: no artifact is created or changed, and no
\* record is inserted.
C14_NoPartialArchive ==
    (Done("create") /\ \E i \in 1..Len(op.ignore) : ~Compiles(op.ignore[i]))
        => /\ result # "Ok"
           /\ db = pre.db
           /\ archives = pre.archives

\* C15: Create writes nothing to the store while it archives; it inserts the
\* record only once the archive is finished with the whole filtered tree in
\* it and its size read; a Create that fails has inserted nothing; the record
\* a successful Create has inserted has a finished artifact under its name
\* and a compressed_size equal to that artifact's length.
C15_InsertAfterArchive ==
    /\ (op.task = "create" /\ pc # "done") => db = pre.db
    /\ pc = "create_insert"
         => /\ archives[op.name].finished
            /\ archives[op.name].from.whole
    /\ (Done("create") /\ result # "Ok") => db = pre.db
    /\ (Done("create") /\ result = "Ok")
         => /\ DOMAIN db = DOMAIN pre.db \cup {op.name}
            /\ \A n \in DOMAIN pre.db \ {op.name} : db[n] = pre.db[n]
            /\ op.name \in DOMAIN archives
            /\ archives[op.name].finished
            /\ archives[op.name].from.whole
            /\ archives[op.name].entries = Kept(archives[op.name].from)
            /\ db[op.name].compressed_size = ByteLen(archives[op.name])
            /\ db[op.name].compressed_size = 1 + Cardinality(archives[op.name].entries)
C15_InsertedMeasured ==
    /\ Done("create") /\ result = "Ok"
    /\ archives[op.name].finished
    /\ db[op.name].compressed_size > 1
    /\ db[op.name].compressed_size < 1 + Cardinality(pre.fs[op.path])

LastSibling(k) ==
    \A j \in (k + 1)..Len(tar.entries) :
        Parent(tar.entries[j].path) # Parent(tar.entries[k].path)

\* C17: when the renderer has printed an archive, the first entry is printed
\* bare and every other entry has the last-item connector if it is the last
\* of its directory and the continuation connector if it is not; for the
\* entries root, root/a, root/a/b.txt, root/c.txt the lines are root, then a
\* with the continuation connector, then b.txt with a's continuation prefix
\* and the last-item connector, then c.txt with the last-item connector.
C17_SiblingConnectors ==
    (tar.entries # <<>> /\ tar.i = Len(tar.entries))
        => /\ tar.out[1].prefix = <<>> /\ tar.out[1].connector = ""
           /\ \A k \in 2..Len(tar.entries) :
                tar.out[k].connector = IF LastSibling(k) THEN ConnLast ELSE ConnCont
           /\ tar.entries = RootedTar
                => tar.out = <<[prefix |-> <<>>, connector |-> "", name |-> "root"],
                               [prefix |-> <<>>, connector |-> ConnCont, name |-> "a"],
                               [prefix |-> <<PadBar>>, connector |-> ConnLast, name |-> "b.txt"],
                               [prefix |-> <<>>, connector |-> ConnLast, name |-> "c.txt"]>>

IsSubstring(f, n) ==
    \E i \in 0..Len(Chars(n)) :
        /\ i + Len(Chars(f)) <= Len(Chars(n))
        /\ \A k \in 1..Len(Chars(f)) : Chars(n)[i + k] = Chars(f)[k]

\* C19: a listing shows the records whose name has the filter as a substring,
\* all of these and no others, and every record when no filter is given; a
\* plain listing returns Ok whatever it shows, also when it shows nothing.
C19_ListShowsSubstringMatches ==
    /\ (Done("list") /\ result # "InvalidArgument")
         => op.shown = {k \in DOMAIN db : op.name = NoVal \/ IsSubstring(op.name, db[k].name)}
    /\ (Done("list") /\ ~op.list_commands /\ ~op.file_tree)
         => /\ result = "Ok"
            /\ db = pre.db
C19_PartOfName ==
    /\ Done("list") /\ result = "Ok"
    /\ op.name = "a"
    /\ op.shown = {"a", "ab"}
    /\ "b" \in DOMAIN db

\* C20: a listing that asks for the commands or for the file tree and gives
\* no name returns InvalidArgument, whatever the store holds; no record has
\* been shown, and the store and the artifacts are as they were.
C20_NameRequired ==
    (Done("list") /\ op.name = NoVal /\ (op.list_commands \/ op.file_tree))
        => /\ result = "InvalidArgument"
           /\ op.shown = {}
           /\ db = pre.db
           /\ archives = pre.archives
C20_FileTreeWithoutName ==
    /\ Done("list") /\ op.name = NoVal
    /\ op.file_tree /\ ~op.list_commands
    /\ result = "InvalidArgument"
    /\ DOMAIN db # {}
    /\ DOMAIN archives # {}

\* C21: an Edit whose editor has exited with a non-zero status has returned
\* EditTemplate; the store and the artifacts are as they were before the
\* Edit, and the temporary file is gone.
C21_EditorFailureNoEffect ==
    (Done("edit") /\ op.editor = "exited" /\ op.status # 0)
        => /\ result = "EditTemplate"
           /\ db = pre.db
           /\ archives = pre.archives
           /\ ~tmp
C21_EditorExitedNonZero ==
    /\ Done("edit") /\ op.editor = "exited" /\ op.status = 1
    /\ result = "EditTemplate"
    /\ op.name \in DOMAIN db
    /\ op.name \in DOMAIN archives
    /\ ~tmp

\* C22: an Edit leaves every other template alone: the record under every
\* key but the one Edit was given, and the artifact of every such key, are
\* after the Edit what they were before it, also when the edited name is
\* the name of another template.
C22_OthersUntouched ==
    Done("edit")
        => \A n \in DOMAIN pre.db \ {op.name} :
              /\ n \in DOMAIN db
              /\ db[n] = pre.db[n]
              /\ n \in DOMAIN pre.archives
                   => /\ n \in DOMAIN archives
                      /\ archives[n] = pre.archives[n]

\* C23: after a successful Edit that has changed the name of a template there
\* is a name, the key Edit was given or the new name, under which the store
\* has the edited record and the artifacts have the template's artifact, so
\* that an Expand of that name finds both and a Delete of it removes both.
C23_UsableAfterRename ==
    (Done("edit") /\ result = "Ok" /\ db[op.name].name # pre.db[op.name].name)
        => \E n \in {op.name, db[op.name].name} :
              /\ n \in DOMAIN db
              /\ db[n] = op.template
              /\ n \in DOMAIN archives
              /\ archives[n] = pre.archives[op.name]

\* C24: a Create that fails leaves a template that was already stored under
\* its name intact, with force too: the record is the record from before the
\* Create and the artifact is an archive with the content it had before.
C24_FailedCreateKeepsPrior ==
    (/\ Done("create")
     /\ result # "Ok"
     /\ op.name \in DOMAIN pre.db
     /\ op.name \in DOMAIN pre.archives)
        => /\ op.name \in DOMAIN db
           /\ db[op.name] = pre.db[op.name]
           /\ op.name \in DOMAIN archives
           /\ archives[op.name].entries = pre.archives[op.name].entries
====
